---- MODULE Spec2Model ----
(***************************************************************************)
(* Model of the period-state reconciliation logic of src/app.py: the      *)
(* Streamlit session state (the draft, the active currency, the selected  *)
(* and last-viewed period), the "History" worksheet of the Record Store,  *)
(* and the handlers that move them: the period-change watcher, the        *)
(* currency switch, Save Record, Load Record and Delete Selected.         *)
(*                                                                         *)
(* Money is a Python float in the source.  Here it is an exact rational   *)
(* [n, d] in lowest terms, so products and sums are those of the source   *)
(* without the rounding of the floating-point unit.                       *)
(* st.session_state is a plain persistent dictionary: a widget with a key *)
(* shows the value stored under that key.                                 *)
(***************************************************************************)
EXTENDS Integers, Sequences, FiniteSets, TLC

(* ------------------------------ bounds -------------------------------- *)
\* how many of the twelve months, counted back from December, the user picks from
NumMonths == 2
\* how many years, counted up from the year widget's minimum, the user picks from
NumYears == 1
\* how many of the currency options, counted from MYR, the user picks from
NumCurrencies == 3
\* how many user interactions (handler runs) a behaviour holds
MaxSteps == 3

(* ------------------------- program constants -------------------------- *)
months ==
  <<"January", "February", "March", "April", "May", "June", "July",
    "August", "September", "October", "November", "December">>

currency_options == <<"MYR", "USD", "GBP", "SGD", "EUR", "AUD", "JPY">>

MinYear == 2020
MaxYear == 2030
MinEpf == 0
MaxEpf == 20

expected_headers ==
  <<"Date", "Month", "Year", "Net_Income", "Total_Expenses", "Balance",
    "EPF_Savings", "Basic_Salary", "Allowances", "Variable_Income",
    "Current_Savings", "EPF_Rate", "Expenses_JSON", "Deductions_JSON",
    "Currency">>

MonthChoices == {months[i] : i \in {j \in 1..12 : j > 12 - NumMonths}}
YearChoices == {y \in MinYear..MaxYear : y < MinYear + NumYears}
CurrencyChoices ==
  {currency_options[i] : i \in {j \in 1..Len(currency_options) : j <= NumCurrencies}}

Range(s) == {s[i] : i \in DOMAIN s}

\* months.index(name) + 1
MonthNumber(name) == CHOOSE i \in 1..12 : months[i] = name

(* ---------------------------- arithmetic ------------------------------ *)
Abs(x) == IF x < 0 THEN -x ELSE x

RECURSIVE GCD(_, _)
GCD(a, b) == IF b = 0 THEN a ELSE GCD(b, a % b)

\* the rational n/d (d > 0) in lowest terms
Rat(n, d) ==
  LET g == GCD(Abs(n), d)
  IN  IF g = 0 THEN [n |-> 0, d |-> 1] ELSE [n |-> n \div g, d |-> d \div g]

Num(i) == [n |-> i, d |-> 1]
LCM(a, b) == (a \div GCD(a, b)) * b
RAdd(x, y) ==
  LET L == LCM(x.d, y.d)
  IN  Rat(x.n * (L \div x.d) + y.n * (L \div y.d), L)
RNeg(x) == [n |-> -x.n, d |-> x.d]
RSub(x, y) == RAdd(x, RNeg(y))
RMul(x, y) == Rat(x.n * y.n, x.d * y.d)

\* a conversion that rounds the product to two decimals
convert_value_rounded(value, rate) ==
  LET x == RMul(value, rate)
  IN  Rat((200 * x.n + x.d) \div (2 * x.d), 100)

\* convert_value(value, rate), and the in-place  x *= rate  of the switch
convert_value(value, rate) == RMul(value, rate)

(* ------------------------------ JSON ---------------------------------- *)
\* A cell text is either the dump of a list of line items or a text that
\* json.loads rejects.
json_dumps(items) == [valid |-> TRUE, val |-> items]
MalformedJSON == [valid |-> FALSE, val |-> <<>>]
json_valid(text) == text.valid
json_loads(text) == text.val

(* --------------------------- default template ------------------------- *)
Item(c, a) == [Category |-> c, Amount |-> a]

get_default_state ==
  [basic_salary    |-> Num(6000),
   allowances      |-> Num(500),
   variable_income |-> Num(0),
   current_savings |-> Num(10000),
   epf_rate        |-> 11,
   expenses        |-> <<Item("Housing (Rent/Loan)", Num(1500)),
                         Item("Car Loan/Transport", Num(800)),
                         Item("Food & Groceries", Num(1000)),
                         Item("Utilities & Telco", Num(300)),
                         Item("PTPTN / Education Loan", Num(200)),
                         Item("Savings / Investments", Num(500))>>,
   deductions      |-> <<Item("SOCSO / PERKESO", Rat(1975, 100)),
                         Item("EIS / SIP", Rat(790, 100)),
                         Item("PCB (Monthly Tax)", Num(300))>>]

(* ---------------------------- session state ---------------------------- *)
\* st.session_state after the first script run when no cloud state is found
\* (the else branch of the initialization, then the widgets take the
\* loaded_* values as their first value).
InitSession(year) ==
  LET d == get_default_state
  IN  [basic_salary       |-> d.basic_salary,
       allowances         |-> d.allowances,
       variable_income    |-> d.variable_income,
       current_savings    |-> d.current_savings,
       epf_rate           |-> d.epf_rate,
       expenses           |-> d.expenses,
       deductions_list    |-> d.deductions,
       active_currency    |-> "MYR",
       month_select       |-> "December",
       year_input         |-> year,
       loaded_salary      |-> d.basic_salary,
       loaded_allowances  |-> d.allowances,
       loaded_var         |-> d.variable_income,
       loaded_savings     |-> d.current_savings,
       loaded_epf         |-> d.epf_rate,
       loaded_month       |-> "December",
       loaded_year        |-> year,
       last_viewed_month  |-> "December",
       last_viewed_year   |-> year]

\* the draft held by a session: the seven fields the widgets edit
Draft(s) ==
  [basic_salary    |-> s.basic_salary,
   allowances      |-> s.allowances,
   variable_income |-> s.variable_income,
   current_savings |-> s.current_savings,
   epf_rate        |-> s.epf_rate,
   expenses        |-> s.expenses,
   deductions      |-> s.deductions_list]

\* the user types a draft into the income widgets, the slider and the two
\* data editors
WithDraft(s, d) ==
  [s EXCEPT !.basic_salary    = d.basic_salary,
            !.allowances      = d.allowances,
            !.variable_income = d.variable_income,
            !.current_savings = d.current_savings,
            !.epf_rate        = d.epf_rate,
            !.expenses        = d.expenses,
            !.deductions_list = d.deductions]

\* the tail of the period watcher: shadow fields and last-viewed period
SyncLoaded(s) ==
  [s EXCEPT !.loaded_salary     = s.basic_salary,
            !.loaded_allowances = s.allowances,
            !.loaded_var        = s.variable_income,
            !.loaded_savings    = s.current_savings,
            !.loaded_epf        = s.epf_rate,
            !.last_viewed_month = s.month_select,
            !.last_viewed_year  = s.year_input]

\* the script reaches the draft widgets and the Cloud Database section only
\* when the period watcher has nothing to do
Rendered(s) ==
  /\ s.month_select = s.last_viewed_month
  /\ s.year_input = s.last_viewed_year

\* the Year input raises, and ends the run at line 509, when its value is
\* outside its bounds
YearAccepted(s) ==
  /\ s.year_input \in MinYear..MaxYear
  /\ s.loaded_year \in MinYear..MaxYear

\* the EPF slider raises, and ends the run at line 563, when its value is
\* outside its bounds: the editors and the buttons below it are not drawn
WidgetsAccept(s) ==
  /\ YearAccepted(s)
  /\ s.epf_rate \in MinEpf..MaxEpf
  /\ s.loaded_epf \in MinEpf..MaxEpf

(* --------------------------- derived metrics --------------------------- *)
RECURSIVE SumAmounts(_)
SumAmounts(items) ==
  IF items = <<>> THEN Num(0)
  ELSE RAdd(items[1].Amount, SumAmounts(Tail(items)))

epf_amount(s) ==
  RMul(RAdd(s.basic_salary, s.allowances), Rat(s.epf_rate, 100))
total_deductions(s) == RAdd(epf_amount(s), SumAmounts(s.deductions_list))
gross(s) == RAdd(RAdd(s.basic_salary, s.allowances), s.variable_income)
net(s) == RSub(gross(s), total_deductions(s))
total_exp(s) == SumAmounts(s.expenses)

\* a balance that is floored at zero
balance_floor_zero(s) ==
  LET b == RSub(net(s), total_exp(s)) IN IF b.n < 0 THEN Num(0) ELSE b

balance(s) == RSub(net(s), total_exp(s))

\* a row built from the shadow field instead of the salary widget
current_data_stale_salary(s) ==
  [Date            |-> <<s.year_input, MonthNumber(s.month_select), 1>>,
   Month           |-> s.month_select,
   Year            |-> s.year_input,
   Net_Income      |-> net(s),
   Total_Expenses  |-> total_exp(s),
   Balance         |-> balance(s),
   EPF_Savings     |-> epf_amount(s),
   Basic_Salary    |-> s.loaded_salary,
   Allowances      |-> s.allowances,
   Variable_Income |-> s.variable_income,
   Current_Savings |-> s.current_savings,
   EPF_Rate        |-> s.epf_rate,
   Expenses_JSON   |-> json_dumps(s.expenses),
   Deductions_JSON |-> json_dumps(s.deductions_list),
   Currency        |-> s.active_currency]

\* the row Save Record hands to save_row_to_history
current_data(s) ==
  [Date            |-> <<s.year_input, MonthNumber(s.month_select), 1>>,
   Month           |-> s.month_select,
   Year            |-> s.year_input,
   Net_Income      |-> net(s),
   Total_Expenses  |-> total_exp(s),
   Balance         |-> balance(s),
   EPF_Savings     |-> epf_amount(s),
   Basic_Salary    |-> s.basic_salary,
   Allowances      |-> s.allowances,
   Variable_Income |-> s.variable_income,
   Current_Savings |-> s.current_savings,
   EPF_Rate        |-> s.epf_rate,
   Expenses_JSON   |-> json_dumps(s.expenses),
   Deductions_JSON |-> json_dumps(s.deductions_list),
   Currency        |-> s.active_currency]

(* ----------------------------- Record Store ---------------------------- *)
\* The History worksheet: its first row and its data rows.  A data row maps
\* each column of the header to the cell under it.  A missing worksheet and
\* a blank one both read as no header and no rows.
BlankSheet == [header |-> <<>>, rows |-> <<>>]

\* dict.get(col, default) / Series.get(col, default)
Get(row, col, default) == IF col \in DOMAIN row THEN row[col] ELSE default

\* the "Month Year" label of a row
Label(row) == <<row.Month, row.Year>>

\* get_sheet_data: the rows as a DataFrame, an empty one on any failure
get_sheet_data(store, read_ok) == IF read_ok THEN store.rows ELSE <<>>

\* 'Month' in df.columns and 'Year' in df.columns, for a non-empty frame
HasKeyColumns(df) ==
  /\ df # <<>>
  /\ {"Month", "Year"} \subseteq DOMAIN df[1]

Min(S) == CHOOSE x \in S : \A y \in S : x <= y

(* ------------------------- save_row_to_history ------------------------- *)
\* str(cell) == str(value) on both key columns
SameKey(row, other) == row.Month = other.Month /\ row.Year = other.Year

\* where a store call of the save or the delete can fail
SaveFailures == {"none", "noclient", "open", "header", "delete", "append"}
DeleteFailures == {"none", "noclient", "open", "update"}

\* header enforcement: a first row that differs from the expected one clears
\* the whole sheet and writes the expected header
EnforceHeader(store, row) ==
  IF store.header = <<>> \/ store.header # expected_headers
  THEN [header |-> expected_headers, rows |-> <<>>]
  ELSE store

\* the failure point is on the path this call takes
SaveFailureApplies(store, row, fail) ==
  LET HasKey(r) == SameKey(r, row)
  IN  /\ fail = "header" => store.header # expected_headers
      /\ fail = "delete" => SelectSeq(EnforceHeader(store, row).rows, HasKey) # <<>>

\* a save that appends without deleting the rows of the same key
save_row_append_only(store, row, fail) ==
  LET kept == EnforceHeader(store, row)
  IN  CASE fail \in {"noclient", "open"} -> [store |-> store, raised |-> fail = "open"]
        [] fail = "header" -> [store |-> BlankSheet, raised |-> TRUE]
        [] fail \in {"delete", "append"} -> [store |-> kept, raised |-> TRUE]
        [] OTHER -> [store |-> [kept EXCEPT !.rows = Append(@, row)],
                     raised |-> FALSE]

save_row_to_history(store, row, fail) ==
  LET kept == EnforceHeader(store, row)
      OtherKey(r) == ~SameKey(r, row)
      cleaned == [kept EXCEPT !.rows = SelectSeq(@, OtherKey)]
  IN  CASE fail = "noclient" -> [store |-> store, raised |-> FALSE]
        [] fail = "open" -> [store |-> store, raised |-> TRUE]
        [] fail = "header" -> [store |-> BlankSheet, raised |-> TRUE]
        [] fail = "delete" -> [store |-> kept, raised |-> TRUE]
        [] fail = "append" -> [store |-> cleaned, raised |-> TRUE]
        [] OTHER -> [store |-> [cleaned EXCEPT !.rows = Append(@, row)],
                     raised |-> FALSE]

(* ------------------------ delete_rows_from_sheet ----------------------- *)
\* a rewrite that sends the remaining rows without the column names
delete_rows_without_header(store, month_year_list, fail) ==
  LET NotListed(r) == Label(r) \notin month_year_list
  IN  IF fail = "noclient" THEN [store |-> store, raised |-> FALSE]
      ELSE IF fail = "open" THEN [store |-> store, raised |-> TRUE]
      ELSE IF store.rows = <<>> THEN [store |-> store, raised |-> FALSE]
      ELSE IF fail = "update" THEN [store |-> BlankSheet, raised |-> TRUE]
      ELSE [store |-> [header |-> <<>>, rows |-> SelectSeq(store.rows, NotListed)],
            raised |-> FALSE]

\* the frame is read, the labelled rows are filtered out, the sheet is
\* cleared and rewritten with the frame's columns as header
delete_rows_from_sheet(store, month_year_list, fail) ==
  LET NotListed(r) == Label(r) \notin month_year_list
  IN  IF fail = "noclient" THEN [store |-> store, raised |-> FALSE]
      ELSE IF fail = "open" THEN [store |-> store, raised |-> TRUE]
      ELSE IF store.rows = <<>> THEN [store |-> store, raised |-> FALSE]
      ELSE IF fail = "update" THEN [store |-> BlankSheet, raised |-> TRUE]
      ELSE [store |-> [store EXCEPT !.rows = SelectSeq(@, NotListed)],
            raised |-> FALSE]

(* ------------------------- period-change watcher ----------------------- *)
\* the first row of the frame whose key columns equal the selection, as a
\* sequence of at most one row
found_record(df, month, year) ==
  IF ~HasKeyColumns(df) THEN <<>>
  ELSE LET hits == {i \in DOMAIN df : df[i].Month = month /\ df[i].Year = year}
       IN  IF hits = {} THEN <<>> ELSE <<df[Min(hits)]>>

\* the five scalar fields of the draft read from a row
ScalarsFrom(s, row) ==
  [s EXCEPT !.basic_salary    = Get(row, "Basic_Salary", Num(0)),
            !.allowances      = Get(row, "Allowances", Num(0)),
            !.variable_income = Get(row, "Variable_Income", Num(0)),
            !.current_savings = Get(row, "Current_Savings", Num(0)),
            !.epf_rate        = Get(row, "EPF_Rate", 11)]

\* a found branch that leaves the deductions of the previous draft in place
watcher_found_merge(s, row) ==
  LET ej == Get(row, "Expenses_JSON", json_dumps(<<>>))
      dj == Get(row, "Deductions_JSON", json_dumps(<<>>))
      s1 == ScalarsFrom(s, row)
      s2 == [s1 EXCEPT !.expenses = json_loads(ej)]
      s3 == [s2 EXCEPT !.active_currency = Get(row, "Currency", "MYR")]
  IN  IF ~json_valid(ej) THEN [ss |-> s1, outcome |-> "exception"]
      ELSE IF ~json_valid(dj) THEN [ss |-> s2, outcome |-> "exception"]
      ELSE [ss |-> SyncLoaded(s3), outcome |-> "found"]

\* found branch: the assignments run in order, and a json.loads that raises
\* ends the script run with the earlier assignments made
watcher_found(s, row) ==
  LET ej == Get(row, "Expenses_JSON", json_dumps(<<>>))
      dj == Get(row, "Deductions_JSON", json_dumps(<<>>))
      s1 == ScalarsFrom(s, row)
      s2 == [s1 EXCEPT !.expenses = json_loads(ej)]
      s3 == [s2 EXCEPT !.deductions_list = json_loads(dj),
                       !.active_currency = Get(row, "Currency", "MYR")]
  IN  IF ~json_valid(ej) THEN [ss |-> s1, outcome |-> "exception"]
      ELSE IF ~json_valid(dj) THEN [ss |-> s2, outcome |-> "exception"]
      ELSE [ss |-> SyncLoaded(s3), outcome |-> "found"]

\* a not-found branch that forgets to reset the currency
watcher_default_keep_currency(s) ==
  [ss |-> SyncLoaded(WithDraft(s, get_default_state)), outcome |-> "default"]

\* not-found branch: the default template and the base currency
watcher_default(s) ==
  [ss |-> SyncLoaded([WithDraft(s, get_default_state)
                        EXCEPT !.active_currency = "MYR"]),
   outcome |-> "default"]

\* the watcher as the script runs it after the month and year widgets
period_watcher(s, df) ==
  IF Rendered(s) THEN [ss |-> s, outcome |-> "nochange"]
  ELSE LET fr == found_record(df, s.month_select, s.year_input)
       IN  IF fr # <<>> /\ "Expenses_JSON" \in DOMAIN fr[1]
           THEN watcher_found(s, fr[1])
           ELSE watcher_default(s)

(* --------------------------- load_record_callback ---------------------- *)
\* a callback that records the loaded year but not the loaded month as last
\* viewed
load_record_stale_month(s, df, record_label) ==
  IF ~HasKeyColumns(df) THEN [ss |-> s, outcome |-> "exception"]
  ELSE
    LET hits == {i \in DOMAIN df : Label(df[i]) = record_label}
    IN  IF hits = {} THEN [ss |-> s, outcome |-> "exception"]
        ELSE
          LET row == df[Min(hits)]
              ej == Get(row, "Expenses_JSON", json_dumps(<<>>))
              dj == Get(row, "Deductions_JSON", json_dumps(<<>>))
              s1 == ScalarsFrom([s EXCEPT !.month_select = row.Month,
                                          !.year_input = row.Year], row)
              s2 == [s1 EXCEPT !.expenses = json_loads(ej)]
              s3 == [s2 EXCEPT !.deductions_list = json_loads(dj),
                               !.active_currency = Get(row, "Currency", "MYR")]
              s4 == [SyncLoaded(s3) EXCEPT !.loaded_month = row.Month,
                                           !.loaded_year = row.Year,
                                           !.last_viewed_month = s.last_viewed_month]
          IN  IF ~json_valid(ej) THEN [ss |-> s1, outcome |-> "exception"]
              ELSE IF ~json_valid(dj) THEN [ss |-> s2, outcome |-> "exception"]
              ELSE [ss |-> s4, outcome |-> "loaded"]

\* the sheet is read again, the first row with the label is taken, and the
\* assignments run in order; an empty frame or a json.loads that raises ends
\* the callback with the earlier assignments made
load_record_callback(s, df, record_label) ==
  IF ~HasKeyColumns(df) THEN [ss |-> s, outcome |-> "exception"]
  ELSE
    LET hits == {i \in DOMAIN df : Label(df[i]) = record_label}
    IN  IF hits = {} THEN [ss |-> s, outcome |-> "exception"]
        ELSE
          LET row == df[Min(hits)]
              ej == Get(row, "Expenses_JSON", json_dumps(<<>>))
              dj == Get(row, "Deductions_JSON", json_dumps(<<>>))
              s1 == ScalarsFrom([s EXCEPT !.month_select = row.Month,
                                          !.year_input = row.Year], row)
              s2 == [s1 EXCEPT !.expenses = json_loads(ej)]
              s3 == [s2 EXCEPT !.deductions_list = json_loads(dj),
                               !.active_currency = Get(row, "Currency", "MYR")]
              s4 == [SyncLoaded(s3) EXCEPT !.loaded_month = row.Month,
                                           !.loaded_year = row.Year]
          IN  IF ~json_valid(ej) THEN [ss |-> s1, outcome |-> "exception"]
              ELSE IF ~json_valid(dj) THEN [ss |-> s2, outcome |-> "exception"]
              ELSE [ss |-> s4, outcome |-> "loaded"]

(* ------------------------ perform_currency_switch ---------------------- *)
\* what one rate lookup (yf.Ticker(...).history) gives: closing data with a
\* rate, no data, or an exception; "none" stands for a lookup not made
RateChoices == {Rat(1, 2), Num(3)}
NoLookup == [kind |-> "none", rate |-> Num(1)]
LookupOutcomes ==
  {[kind |-> "data", rate |-> r] : r \in RateChoices}
    \cup {[kind |-> "empty", rate |-> Num(1)], [kind |-> "raise", rate |-> Num(1)]}

ScaleItems(items, rate) ==
  [i \in DOMAIN items |->
     [items[i] EXCEPT !.Amount = convert_value(items[i].Amount, rate)]]

\* a rescale that misses the deduction amounts
scale_all_but_deductions(s, rate) ==
  [s EXCEPT !.basic_salary    = convert_value(@, rate),
            !.allowances      = convert_value(@, rate),
            !.variable_income = convert_value(@, rate),
            !.current_savings = convert_value(@, rate),
            !.expenses        = ScaleItems(@, rate)]

\* one conversion step: every monetary field times the rate
scale_all(s, rate) ==
  [s EXCEPT !.basic_salary    = convert_value(@, rate),
            !.allowances      = convert_value(@, rate),
            !.variable_income = convert_value(@, rate),
            !.current_savings = convert_value(@, rate),
            !.expenses        = ScaleItems(@, rate),
            !.deductions_list = ScaleItems(@, rate)]

\* step 3 of the switch: shadow fields and the active currency
finish_switch(s, target_currency) ==
  [s EXCEPT !.loaded_salary     = s.basic_salary,
            !.loaded_allowances = s.allowances,
            !.loaded_var        = s.variable_income,
            !.loaded_savings    = s.current_savings,
            !.active_currency   = target_currency]

perform_currency_switch(s, target_currency, o1, o2) ==
  LET current_currency == s.active_currency
      s1 == IF current_currency # "MYR" /\ o1.kind = "data"
            THEN scale_all(s, o1.rate) ELSE s
      s2 == IF target_currency # "MYR" /\ o2.kind = "data"
            THEN scale_all(s1, o2.rate) ELSE s1
  IN  IF current_currency = target_currency
      THEN [ss |-> s, outcome |-> "same", msg |-> ""]
      ELSE IF current_currency # "MYR" /\ o1.kind = "empty"
      THEN [ss |-> s, outcome |-> "error",
            msg |-> "Could not fetch rates to normalize currency."]
      ELSE IF current_currency # "MYR" /\ o1.kind # "data"
      THEN [ss |-> s, outcome |-> "error", msg |-> "Currency API Error"]
      ELSE IF target_currency # "MYR" /\ o2.kind = "empty"
      THEN [ss |-> s1, outcome |-> "error",
            msg |-> "Could not fetch target rates."]
      ELSE IF target_currency # "MYR" /\ o2.kind # "data"
      THEN [ss |-> s1, outcome |-> "error", msg |-> "Currency API Error"]
      ELSE [ss |-> finish_switch(s2, target_currency),
            outcome |-> "switched", msg |-> ""]

\* the lookups the switch makes, in order, for this pair of currencies
LookupsMade(current_currency, target_currency, o1, o2) ==
  /\ IF current_currency # "MYR" THEN o1 \in LookupOutcomes ELSE o1 = NoLookup
  /\ IF target_currency # "MYR" /\ (current_currency = "MYR" \/ o1.kind = "data")
     THEN o2 \in LookupOutcomes ELSE o2 = NoLookup

\* the product of the rates the lookups returned
EffectiveFactor(o1, o2) == RMul(o1.rate, o2.rate)

(* ---------------------------- Save Record button ----------------------- *)
\* a button that clears the form to the template once the row is written
save_button_resets_form(s) ==
  [WithDraft(s, get_default_state) EXCEPT !.last_viewed_month = s.month_select]

\* what the button does to the session after save_row_to_history returns
save_button_session(s) == [s EXCEPT !.last_viewed_month = s.month_select]

(* -------------------------- Delete Selected button -------------------- *)
\* a button that clears the form when the record on screen is deleted
delete_button_resets_active(s, to_delete) ==
  IF <<s.month_select, s.year_input>> \in to_delete
  THEN [WithDraft(s, get_default_state) EXCEPT !.active_currency = "MYR"]
  ELSE s

\* what the button does to the session: it assigns no key of it
delete_button_session(s, to_delete) == s

(* ------------------------------- inputs -------------------------------- *)
\* drafts the user may type into the widgets
UserDrafts ==
  {[basic_salary    |-> Num(3000),
    allowances      |-> Num(0),
    variable_income |-> Num(250),
    current_savings |-> Num(0),
    epf_rate        |-> 9,
    expenses        |-> <<Item("Food", Num(1200))>>,
    deductions      |-> <<>>],
   [basic_salary    |-> Num(8000),
    allowances      |-> Num(1000),
    variable_income |-> Num(-40),
    current_savings |-> Num(500),
    epf_rate        |-> 20,
    expenses        |-> <<>>,
    deductions      |-> <<Item("Zakat", Num(50)), Item("Zakat", Rat(1, 2))>>]}

\* a row an earlier session saved for the earliest month of the first year
EarlierRow ==
  current_data(
    [WithDraft(InitSession(MinYear), CHOOSE d \in UserDrafts : d.epf_rate = 9)
       EXCEPT !.month_select = months[13 - NumMonths],
              !.active_currency = "USD"])

WithoutColumn(row, col) == [c \in DOMAIN row \ {col} |-> row[c]]

\* what the History worksheet may hold when the session starts: nothing, a
\* row of this version, a row whose JSON cells were edited by hand in the
\* spreadsheet, or a sheet written before the Currency column existed
InitialStores ==
  {BlankSheet,
   [header |-> expected_headers, rows |-> <<EarlierRow>>],
   [header |-> expected_headers,
    rows |-> <<[EarlierRow EXCEPT !.Expenses_JSON = MalformedJSON]>>],
   [header |-> expected_headers,
    rows |-> <<[EarlierRow EXCEPT !.Deductions_JSON = MalformedJSON]>>],
   [header |-> SelectSeq(expected_headers, LAMBDA c : c # "Currency"),
    rows |-> <<WithoutColumn(EarlierRow, "Currency")>>]}

\* the step-level parts of the state while nothing runs in them
NoRace == [sheet |-> <<>>, proc |-> <<>>]
NoMetrics == [done |-> FALSE]
NoProjection == [pc |-> "off"]

\* load_cloud_state gives None when the State sheet has no row
NoPayload == <<>>

(* -------------------------------- state -------------------------------- *)
VARIABLES
  ss,        \* st.session_state
  history,   \* the History worksheet
  pc,        \* "idle": waiting for the user; "render": a script run is due
  steps,     \* user interactions so far
  last,      \* the handler that ran last, its inputs and the state before it
  race,      \* two sessions inside save_row_to_history, store call by store call
  metrics,   \* the derived metrics of one script run
  proj,      \* the wealth projection loop of one script run
  cloud      \* the row of the State worksheet

vars == <<ss, history, pc, steps, last, race, metrics, proj, cloud>>

\* the parts of the state the handlers of the main column leave alone
aux == <<race, metrics, proj, cloud>>

\* last.saved is the session whose draft the latest Save Record wrote, while
\* no later save or delete has touched the sheet; last.uploaded is the session
\* whose payload the State sheet holds
Event(op, outcome, msg, rec, read_ok, target, o1, o2) ==
  [op |-> op, outcome |-> outcome, msg |-> msg, pre |-> ss,
   pre_store |-> history, rec |-> rec, read_ok |-> read_ok,
   target |-> target, o1 |-> o1, o2 |-> o2, labels |-> {}, absent |-> {},
   uploaded |-> last.uploaded, saved |-> last.saved]

Init ==
  /\ ss \in {InitSession(y) : y \in YearChoices}
  /\ history \in InitialStores
  /\ pc = "idle"
  /\ steps = 0
  /\ last = [op |-> "init", outcome |-> "", msg |-> "", pre |-> ss,
             pre_store |-> history, rec |-> <<>>, read_ok |-> TRUE,
             target |-> "", o1 |-> NoLookup, o2 |-> NoLookup,
             labels |-> {}, absent |-> {}, uploaded |-> <<>>,
             saved |-> <<>>]
  /\ race = NoRace
  /\ metrics = NoMetrics
  /\ proj = NoProjection
  /\ cloud = NoPayload

\* the script run that follows a handler finds the watcher with work to do
NextPc(s) == IF Rendered(s) THEN "idle" ELSE "render"

(* ------------------------------- actions ------------------------------- *)
\* the user edits the income widgets, the EPF slider and the data editors
EditDraft(d) ==
  /\ pc = "idle" /\ steps < MaxSteps
  /\ Rendered(ss) /\ WidgetsAccept(ss)
  /\ Draft(ss) # d
  /\ ss' = WithDraft(ss, d)
  /\ steps' = steps + 1
  /\ last' = Event("edit", "", "", <<>>, TRUE, "", NoLookup, NoLookup)
  /\ UNCHANGED <<history, pc, aux>>

\* the user picks another month or year; the script runs the watcher
PeriodChange(month, year, read_ok) ==
  /\ pc = "idle" /\ steps < MaxSteps
  /\ YearAccepted(ss)
  /\ <<month, year>> # <<ss.month_select, ss.year_input>>
  /\ LET picked == [ss EXCEPT !.month_select = month, !.year_input = year]
         df == get_sheet_data(history, read_ok)
         w == period_watcher(picked, df)
     IN  /\ ss' = w.ss
         /\ last' = Event("period_change", w.outcome, "",
                          found_record(df, month, year), read_ok, "",
                          NoLookup, NoLookup)
  /\ steps' = steps + 1
  /\ UNCHANGED <<history, pc, aux>>

\* a script run that starts with the selection away from the last-viewed
\* period: the watcher fires again
Render(read_ok) ==
  /\ pc = "render"
  /\ YearAccepted(ss)
  /\ LET df == get_sheet_data(history, read_ok)
         w == period_watcher(ss, df)
     IN  /\ ss' = w.ss
         /\ last' = Event("render", w.outcome, "",
                          found_record(df, ss.month_select, ss.year_input),
                          read_ok, "", NoLookup, NoLookup)
  /\ pc' = "idle"
  /\ UNCHANGED <<history, steps, aux>>

\* the user picks another dashboard currency in the sidebar
CurrencySwitch(target, o1, o2) ==
  /\ pc = "idle" /\ steps < MaxSteps
  /\ target # ss.active_currency
  /\ LookupsMade(ss.active_currency, target, o1, o2)
  /\ LET r == perform_currency_switch(ss, target, o1, o2)
     IN  /\ ss' = r.ss
         /\ pc' = NextPc(r.ss)
         /\ last' = Event("switch", r.outcome, r.msg, <<>>, TRUE, target, o1, o2)
  /\ steps' = steps + 1
  /\ UNCHANGED <<history, aux>>

\* Save Record: the row of the current draft is written, then "Saved!";
\* an exception of a store call ends the run before the message
SaveRecord(fail) ==
  /\ pc = "idle" /\ steps < MaxSteps
  /\ Rendered(ss) /\ WidgetsAccept(ss)
  /\ SaveFailureApplies(history, current_data(ss), fail)
  /\ LET r == save_row_to_history(history, current_data(ss), fail)
     IN  /\ history' = r.store
         /\ ss' = IF r.raised THEN ss ELSE save_button_session(ss)
         /\ last' = [Event("save", IF r.raised THEN "exception" ELSE "saved",
                           IF r.raised THEN "" ELSE "Saved!",
                           <<>>, TRUE, fail, NoLookup, NoLookup)
                       EXCEPT !.saved = IF fail = "none" THEN <<ss>>
                                        ELSE IF r.store = history THEN last.saved
                                        ELSE <<>>]
  /\ steps' = steps + 1
  /\ UNCHANGED <<pc, aux>>

\* Load Record: offered when the render read rows with key columns
LoadRecord(record_label, read_ok) ==
  /\ pc = "idle" /\ steps < MaxSteps
  /\ Rendered(ss) /\ WidgetsAccept(ss)
  /\ HasKeyColumns(history.rows)
  /\ record_label \in {Label(r) : r \in Range(history.rows)}
  /\ LET df == get_sheet_data(history, read_ok)
         r == load_record_callback(ss, df, record_label)
     IN  /\ ss' = r.ss
         /\ pc' = NextPc(r.ss)
         /\ last' = Event("load", r.outcome, "",
                          found_record(df, record_label[1], record_label[2]),
                          read_ok, "", NoLookup, NoLookup)
  /\ steps' = steps + 1
  /\ UNCHANGED <<history, aux>>

\* Delete Selected: offered with Load Record, for a non-empty selection
DeleteSelected(to_delete, fail) ==
  /\ pc = "idle" /\ steps < MaxSteps
  /\ Rendered(ss) /\ WidgetsAccept(ss)
  /\ HasKeyColumns(history.rows)
  /\ to_delete # {}
  /\ to_delete \subseteq {Label(r) : r \in Range(history.rows)}
  /\ LET r == delete_rows_from_sheet(history, to_delete, fail)
     IN  /\ history' = r.store
         /\ ss' = delete_button_session(ss, to_delete)
         /\ last' = [Event("delete", IF r.raised THEN "exception" ELSE "deleted",
                           IF r.raised THEN "" ELSE "Deleted!",
                           <<>>, TRUE, fail, NoLookup, NoLookup)
                       EXCEPT !.labels = to_delete, !.saved = <<>>]
  /\ steps' = steps + 1
  /\ UNCHANGED <<pc, aux>>

Next ==
  \/ \E d \in UserDrafts : EditDraft(d)
  \/ \E m \in MonthChoices, y \in YearChoices, ok \in BOOLEAN :
       PeriodChange(m, y, ok)
  \/ \E ok \in BOOLEAN : Render(ok)
  \/ \E t \in CurrencyChoices, o1, o2 \in LookupOutcomes \cup {NoLookup} :
       CurrencySwitch(t, o1, o2)
  \/ \E f \in SaveFailures : SaveRecord(f)
  \/ \E l \in MonthChoices \X YearChoices, ok \in BOOLEAN : LoadRecord(l, ok)
  \/ \E td \in SUBSET (MonthChoices \X YearChoices), f \in DeleteFailures :
       DeleteSelected(td, f)

Spec == Init /\ [][Next]_vars

\* the session-level parts of the state while a step-level specification runs
MainAtRest(s, store) ==
  /\ ss = s
  /\ history = store
  /\ cloud = NoPayload
  /\ pc = "idle"
  /\ steps = 0
  /\ last = [op |-> "init", outcome |-> "", msg |-> "", pre |-> ss,
             pre_store |-> history, rec |-> <<>>, read_ok |-> TRUE,
             target |-> "", o1 |-> NoLookup, o2 |-> NoLookup,
             labels |-> {}, absent |-> {}, uploaded |-> <<>>,
             saved |-> <<>>]

main == <<ss, history, pc, steps, last>>

(* ------------- two sessions inside save_row_to_history ----------------- *)
\* The worksheet as the store calls see it: its lines, top to bottom.  A
\* line is a header line (the column names) or a line of row_data values.
NoRow == [Month |-> "", Year |-> 0]
HeaderLine(h) == [kind |-> "header", header |-> h, row |-> NoRow]
RowLine(r) == [kind |-> "row", header |-> <<>>, row |-> r]

RemoveAt(seq, i) ==
  [k \in 1..(Len(seq) - 1) |-> IF k < i THEN seq[k] ELSE seq[k + 1]]

\* the period both sessions save, and the rows they save for it
RacePeriod == <<months[12], MinYear>>
RaceRows ==
  {current_data([WithDraft(InitSession(MinYear), d)
                   EXCEPT !.month_select = RacePeriod[1],
                          !.year_input = RacePeriod[2]]) : d \in UserDrafts}
RaceOldRow == current_data(InitSession(MinYear))

\* what the worksheet may hold when the two saves start
RaceSheets ==
  {<<>>,
   <<HeaderLine(expected_headers)>>,
   <<HeaderLine(expected_headers), RowLine(EarlierRow)>>,
   <<HeaderLine(expected_headers), RowLine(RaceOldRow), RowLine(EarlierRow)>>,
   <<HeaderLine(expected_headers), RowLine(EarlierRow), RowLine(RaceOldRow)>>,
   <<HeaderLine(SelectSeq(expected_headers, LAMBDA c : c # "Currency")),
     RowLine(WithoutColumn(EarlierRow, "Currency"))>>}

\* ws.row_values(1): the cells of the first line
row_values_1(sheet) ==
  IF sheet = <<>> THEN <<>>
  ELSE IF sheet[1].kind = "header" THEN sheet[1].header
  ELSE <<"values">>

\* df.index[mask], as line numbers (idx + 2), highest first
indices_to_delete(all_values, row) ==
  LET Hit(k) == /\ all_values[k].kind = "row"
                /\ all_values[k].row.Month = row.Month
                /\ all_values[k].row.Year = row.Year
      RECURSIVE Down(_)
      Down(k) == IF k < 2 THEN <<>>
                 ELSE IF Hit(k) THEN <<k>> \o Down(k - 1) ELSE Down(k - 1)
  IN  Down(Len(all_values))

Sessions == {1, 2}

InitRace ==
  /\ MainAtRest(InitSession(MinYear), BlankSheet)
  /\ metrics = NoMetrics
  /\ proj = NoProjection
  /\ \E sheet \in RaceSheets, r1, r2 \in RaceRows :
       /\ r1 # r2
       /\ race = [sheet |-> sheet, initial |-> sheet,
                  proc |-> [p \in Sessions |->
                              [pc |-> "row_values",
                               row |-> IF p = 1 THEN r1 ELSE r2,
                               todo |-> <<>>]]]

\* current_headers = ws.row_values(1), and the header test
RaceReadHeader(p) ==
  /\ race.proc[p].pc = "row_values"
  /\ LET current_headers == row_values_1(race.sheet)
     IN  race' = [race EXCEPT !.proc[p].pc =
                    IF current_headers = <<>> \/ current_headers # expected_headers
                    THEN "clear" ELSE "get_all_values"]
  /\ UNCHANGED <<main, metrics, proj, cloud>>

\* ws.clear()
RaceClear(p) ==
  /\ race.proc[p].pc = "clear"
  /\ race' = [race EXCEPT !.sheet = <<>>, !.proc[p].pc = "append_header"]
  /\ UNCHANGED <<main, metrics, proj, cloud>>

\* ws.append_row(expected_headers)
RaceAppendHeader(p) ==
  /\ race.proc[p].pc = "append_header"
  /\ race' = [race EXCEPT !.sheet = Append(@, HeaderLine(expected_headers)),
                          !.proc[p].pc = "get_all_values"]
  /\ UNCHANGED <<main, metrics, proj, cloud>>

\* all_values = ws.get_all_values(), the frame and the mask; a first line
\* that is not a header line has no 'Month' column and df['Month'] raises
RaceReadRows(p) ==
  /\ race.proc[p].pc = "get_all_values"
  /\ LET all_values == race.sheet
         todo == indices_to_delete(all_values, race.proc[p].row)
     IN  race' = [race EXCEPT
                    !.proc[p].todo = IF Len(all_values) > 1 THEN todo ELSE <<>>,
                    !.proc[p].pc =
                      IF Len(all_values) > 1 /\ all_values[1].kind # "header"
                      THEN "raised"
                      ELSE IF Len(all_values) > 1 /\ todo # <<>>
                      THEN "delete_rows" ELSE "append_row"]
  /\ UNCHANGED <<main, metrics, proj, cloud>>

\* ws.delete_rows(idx + 2): the line with that number goes, whatever it holds
\* by now; a number past the last line removes an empty line of the grid
RaceDeleteRow(p) ==
  /\ race.proc[p].pc = "delete_rows"
  /\ LET line == Head(race.proc[p].todo)
         rest == Tail(race.proc[p].todo)
     IN  race' = [race EXCEPT
                    !.sheet = IF line <= Len(@) THEN RemoveAt(@, line) ELSE @,
                    !.proc[p].todo = rest,
                    !.proc[p].pc = IF rest = <<>> THEN "append_row"
                                   ELSE "delete_rows"]
  /\ UNCHANGED <<main, metrics, proj, cloud>>

\* ws.append_row(list(row_data_dict.values()))
RaceAppendRow(p) ==
  /\ race.proc[p].pc = "append_row"
  /\ race' = [race EXCEPT !.sheet = Append(@, RowLine(race.proc[p].row)),
                          !.proc[p].pc = "done"]
  /\ UNCHANGED <<main, metrics, proj, cloud>>

NextRace ==
  \/ \E p \in Sessions : RaceReadHeader(p)
  \/ \E p \in Sessions : RaceClear(p)
  \/ \E p \in Sessions : RaceAppendHeader(p)
  \/ \E p \in Sessions : RaceReadRows(p)
  \/ \E p \in Sessions : RaceDeleteRow(p)
  \/ \E p \in Sessions : RaceAppendRow(p)

SpecRace == InitRace /\ [][NextRace]_vars

(* ------------------- the derived metrics of one run -------------------- *)
\* drafts for the metrics: amounts with two decimals, among them negative
\* and zero amounts, a zero EPF rate and empty lists
MetricDrafts ==
  {[basic_salary    |-> b,
    allowances      |-> a,
    variable_income |-> v,
    current_savings |-> Num(10000),
    epf_rate        |-> e,
    expenses        |-> x,
    deductions      |-> d] :
     b \in {Num(6000), Num(0), Rat(-123456, 100)},
     a \in {Num(500), Num(0)},
     v \in {Num(0), Rat(-25050, 100)},
     e \in {0, 11, 20},
     x \in {get_default_state.expenses, <<>>,
            <<Item("Gift", Num(0)), Item("Refund", Rat(-1010, 100))>>},
     d \in {get_default_state.deductions, <<>>,
            <<Item("Rebate", Rat(-525, 100))>>}}

InitMetrics ==
  /\ \E d \in MetricDrafts : MainAtRest(WithDraft(InitSession(MinYear), d), BlankSheet)
  /\ metrics = NoMetrics
  /\ race = NoRace
  /\ proj = NoProjection

\* the script run evaluates the widgets and the figures of the right column
ComputeMetrics ==
  /\ ~metrics.done
  /\ metrics' = [done             |-> TRUE,
                 epf_amount       |-> epf_amount(ss),
                 total_deductions |-> total_deductions(ss),
                 gross            |-> gross(ss),
                 net              |-> net(ss),
                 total_exp        |-> total_exp(ss),
                 balance          |-> balance(ss)]
  /\ UNCHANGED <<main, race, proj, cloud>>

NextMetrics == ComputeMetrics

SpecMetrics == InitMetrics /\ [][NextMetrics]_vars

(* ----------------------- the sync payload (State sheet) ----------------- *)
MaxAbsent == 2

PayloadFields ==
  {"expenses", "deductions", "basic_salary", "allowances", "variable_income",
   "current_savings", "epf_rate", "month_select", "year_input", "currency"}

\* a payload built from the shadow field of the salary instead of the widget
save_cloud_state_shadow_salary(s) ==
  [timestamp       |-> "timestamp",
   expenses        |-> json_dumps(s.expenses),
   deductions      |-> json_dumps(s.deductions_list),
   basic_salary    |-> s.loaded_salary,
   allowances      |-> s.allowances,
   variable_income |-> s.variable_income,
   current_savings |-> s.current_savings,
   epf_rate        |-> s.epf_rate,
   month_select    |-> s.month_select,
   year_input      |-> s.year_input,
   currency        |-> s.active_currency]

\* the row save_cloud_state writes under the header of its keys
save_cloud_state(s) ==
  [timestamp       |-> "timestamp",
   expenses        |-> json_dumps(s.expenses),
   deductions      |-> json_dumps(s.deductions_list),
   basic_salary    |-> s.basic_salary,
   allowances      |-> s.allowances,
   variable_income |-> s.variable_income,
   current_savings |-> s.current_savings,
   epf_rate        |-> s.epf_rate,
   month_select    |-> s.month_select,
   year_input      |-> s.year_input,
   currency        |-> s.active_currency]

\* the sessions whose upload the State sheet may hold
SyncSessions ==
  {[WithDraft(InitSession(MinYear), d)
      EXCEPT !.month_select = months[13 - NumMonths],
             !.active_currency = "USD"] : d \in UserDrafts}

\* what load_cloud_state may return: nothing, or an uploaded row read under
\* a header that lacks some of the columns
Payloads ==
  {NoPayload} \cup
  {[f \in DOMAIN save_cloud_state(s) \ A |-> save_cloud_state(s)[f]] :
     s \in SyncSessions,
     A \in {B \in SUBSET PayloadFields : Cardinality(B) <= MaxAbsent}}

AbsentFields(cloud_state) ==
  IF cloud_state = NoPayload THEN {} ELSE PayloadFields \ DOMAIN cloud_state

\* the first script run of a session: the initialisation block, then the
\* widgets take their values from the loaded_* keys
init_session(cloud_state, now_year) ==
  LET defaults == get_default_state
      blank == InitSession(now_year)
      loaded ==
        [blank EXCEPT
           !.expenses = json_loads(Get(cloud_state, "expenses",
                                       json_dumps(defaults.expenses))),
           !.deductions_list = json_loads(Get(cloud_state, "deductions",
                                              json_dumps(defaults.deductions))),
           !.basic_salary = Get(cloud_state, "basic_salary", defaults.basic_salary),
           !.allowances = Get(cloud_state, "allowances", defaults.allowances),
           !.variable_income = Get(cloud_state, "variable_income",
                                   defaults.variable_income),
           !.current_savings = Get(cloud_state, "current_savings",
                                   defaults.current_savings),
           !.epf_rate = Get(cloud_state, "epf_rate", defaults.epf_rate),
           !.month_select = Get(cloud_state, "month_select", "December"),
           !.year_input = Get(cloud_state, "year_input", now_year),
           !.active_currency = Get(cloud_state, "currency", "MYR")]
  IN  IF cloud_state = NoPayload THEN blank ELSE SyncLoaded(loaded)

\* the Pull button with a payload
pull_state(s, cloud_state, now_year) ==
  LET pulled ==
        [s EXCEPT
           !.basic_salary = Get(cloud_state, "basic_salary", Num(0)),
           !.allowances = Get(cloud_state, "allowances", Num(0)),
           !.variable_income = Get(cloud_state, "variable_income", Num(0)),
           !.current_savings = Get(cloud_state, "current_savings", Num(0)),
           !.epf_rate = Get(cloud_state, "epf_rate", 11),
           !.month_select = Get(cloud_state, "month_select", "December"),
           !.year_input = Get(cloud_state, "year_input", now_year),
           !.expenses = json_loads(Get(cloud_state, "expenses", json_dumps(<<>>))),
           !.deductions_list = json_loads(Get(cloud_state, "deductions",
                                              json_dumps(<<>>))),
           !.active_currency = Get(cloud_state, "currency", "MYR")]
  IN  IF cloud_state = NoPayload
      THEN [ss |-> s, outcome |-> "nothing", msg |-> "Updated!"]
      ELSE [ss |-> [SyncLoaded(pulled)
                      EXCEPT !.loaded_month = pulled.month_select,
                             !.loaded_year = pulled.year_input],
            outcome |-> "pulled", msg |-> ""]

InitSync ==
  /\ \E cloud_state \in Payloads, y \in YearChoices :
       /\ ss = init_session(cloud_state, y)
       /\ last = [op |-> "init", outcome |-> "", msg |-> "", pre |-> ss,
                  pre_store |-> BlankSheet, rec |-> <<>>, read_ok |-> TRUE,
                  target |-> "", o1 |-> NoLookup, o2 |-> NoLookup,
                  labels |-> {}, absent |-> AbsentFields(cloud_state),
                  uploaded |-> <<>>, saved |-> <<>>]
       /\ cloud = cloud_state
  /\ history = BlankSheet
  /\ pc = "idle"
  /\ steps = 0
  /\ race = NoRace
  /\ metrics = NoMetrics
  /\ proj = NoProjection

\* the user presses Pull; the script reruns with the pulled session
Pull(cloud_state, now_year) ==
  /\ pc = "idle" /\ steps < 1
  /\ Rendered(ss)
  /\ LET r == pull_state(ss, cloud_state, now_year)
     IN  /\ ss' = r.ss
         /\ last' = [Event("pull", r.outcome, r.msg, <<>>, TRUE, "",
                           NoLookup, NoLookup)
                       EXCEPT !.absent = AbsentFields(cloud_state)]
  /\ steps' = steps + 1
  /\ UNCHANGED <<history, pc, aux>>

NextSync == \E cloud_state \in Payloads, y \in YearChoices : Pull(cloud_state, y)

SpecSync == InitSync /\ [][NextSync]_vars

(* ------------------ delete_rows_from_sheet on any sheet ---------------- *)
MaxRows == 3

\* rows of distinct periods, one per month from January on
StoreRow(i) ==
  [EarlierRow EXCEPT !.Month = months[i],
                     !.Date = <<MinYear, i, 1>>,
                     !.Basic_Salary = Num(1000 * i)]

\* every arrangement of some of these rows
RECURSIVE Arrangements(_)
Arrangements(S) ==
  IF S = {} THEN {<<>>}
  ELSE UNION {{<<StoreRow(i)>> \o rest : rest \in Arrangements(S \ {i})} : i \in S}

\* the sheets the call may meet: no header and no rows, or the header and
\* any rows in any order (rows are appended in the order they are saved)
StoreSheets ==
  {BlankSheet} \cup
  {[header |-> expected_headers, rows |-> rows] :
     rows \in UNION {Arrangements(S) : S \in SUBSET (1..MaxRows)}}

\* the labels a list may hold: those of the rows, and one of no row
ListLabels == {<<months[i], MinYear>> : i \in 1..(MaxRows + 1)}

InitStore ==
  /\ \E store \in StoreSheets : MainAtRest(InitSession(MinYear), store)
  /\ race = NoRace
  /\ metrics = NoMetrics
  /\ proj = NoProjection

\* the body of the Delete Selected button with the list of the multiselect;
\* the list was picked against the sheet read at 670, the call reads the
\* sheet again at 220, and another session may have removed rows in between
DeleteCall(to_delete, fail) ==
  /\ steps < 1
  /\ to_delete # {}
  /\ LET r == delete_rows_from_sheet(history, to_delete, fail)
     IN  /\ history' = r.store
         /\ ss' = delete_button_session(ss, to_delete)
         /\ last' = [Event("delete", IF r.raised THEN "exception" ELSE "deleted",
                           IF r.raised THEN "" ELSE "Deleted!",
                           <<>>, TRUE, fail, NoLookup, NoLookup)
                       EXCEPT !.labels = to_delete, !.saved = <<>>]
  /\ steps' = steps + 1
  /\ UNCHANGED <<pc, aux>>

NextStore ==
  \E td \in SUBSET ListLabels, f \in DeleteFailures : DeleteCall(td, f)

SpecStore == InitStore /\ [][NextStore]_vars

(* ------------------ a switch and the switch back ----------------------- *)
\* the sessions a round trip may start from
RoundTripSessions ==
  {[WithDraft(InitSession(MinYear), d) EXCEPT !.active_currency = c] :
     d \in UserDrafts \cup {get_default_state}, c \in CurrencyChoices}

\* a lookup that returns the inverse of the rate another lookup returned
Inverse(o) ==
  IF o.kind = "data" THEN [kind |-> "data", rate |-> Rat(o.rate.d, o.rate.n)]
  ELSE NoLookup

InitRoundTrip ==
  /\ \E s \in RoundTripSessions : MainAtRest(s, BlankSheet)
  /\ race = NoRace
  /\ metrics = NoMetrics
  /\ proj = NoProjection

\* the user picks another currency
SwitchThere(target, o1, o2) ==
  /\ last.op = "init"
  /\ target # ss.active_currency
  /\ LookupsMade(ss.active_currency, target, o1, o2)
  /\ LET r == perform_currency_switch(ss, target, o1, o2)
     IN  /\ ss' = r.ss
         /\ last' = Event("there", r.outcome, r.msg, <<>>, TRUE, target, o1, o2)
  /\ steps' = steps + 1
  /\ UNCHANGED <<history, pc, aux>>

\* the user picks the first currency again, and the market has not moved:
\* each pair quotes the inverse of what the opposite pair quoted
SwitchBack ==
  /\ last.op = "there" /\ last.outcome = "switched"
  /\ LET target == last.pre.active_currency
         o1 == IF ss.active_currency # "MYR" THEN Inverse(last.o2) ELSE NoLookup
         o2 == IF target # "MYR" THEN Inverse(last.o1) ELSE NoLookup
         r == perform_currency_switch(ss, target, o1, o2)
     IN  /\ ss' = r.ss
         /\ last' = [Event("back", r.outcome, r.msg, <<>>, TRUE, target, o1, o2)
                       EXCEPT !.pre = last.pre]
  /\ steps' = steps + 1
  /\ UNCHANGED <<history, pc, aux>>

NextRoundTrip ==
  \/ \E t \in CurrencyChoices, o1, o2 \in LookupOutcomes \cup {NoLookup} :
       SwitchThere(t, o1, o2)
  \/ SwitchBack

SpecRoundTrip == InitRoundTrip /\ [][NextRoundTrip]_vars

(* ----------------------- the wealth projection ------------------------- *)
\* duration_map
Horizons == {12, 36, 60, 120}

\* the fallback rate of a year the list does not cover
DefaultRate == Rat(3, 100)

\* yearly_rates_list for a horizon of so many years: the table as offered
\* (3.0 in every year), every year set to 0.0, the first year set to 5.0 or
\* to -1200.0 (the Inflation column takes any number), and lists that stop
\* before the last year, which the loop guards against
RateLists(years_count) ==
  LET Filled(first, others) ==
        [y \in 1..years_count |-> IF y = 1 THEN first ELSE others]
  IN  {Filled(DefaultRate, DefaultRate),
       Filled(Num(0), Num(0)),
       Filled(Rat(5, 100), DefaultRate),
       Filled(Num(-12), DefaultRate),
       <<>>} \cup
      (IF years_count > 1 THEN {<<Rat(5, 100)>>} ELSE {})

\* rate = yearly_rates_list[idx] if idx < len(yearly_rates_list) else 0.03,
\* with the fallback also taken for a rate of 0.0
rate_of_year_or_default(yearly_rates_list, current_year_idx) ==
  IF /\ current_year_idx < Len(yearly_rates_list)
     /\ yearly_rates_list[current_year_idx + 1] # Num(0)
  THEN yearly_rates_list[current_year_idx + 1]
  ELSE DefaultRate

\* rate = yearly_rates_list[idx] if idx < len(yearly_rates_list) else 0.03
rate_of_year(yearly_rates_list, current_year_idx) ==
  IF current_year_idx < Len(yearly_rates_list)
  THEN yearly_rates_list[current_year_idx + 1]
  ELSE DefaultRate

\* 1 + monthly_inflation
MonthFactor(rate) == RAdd(Num(1), RMul(rate, Rat(1, 12)))

\* cumulative_deflator is a product of month factors; it is kept as the
\* number of times each factor other than 1 went into it
Factors ==
  {MonthFactor(r) : r \in {DefaultRate, Rat(5, 100), Num(-12)}}
NoDeflation == [f \in Factors |-> 0]
TimesFactor(deflator, f) ==
  IF f = Num(1) THEN deflator ELSE [deflator EXCEPT ![f] = @ + 1]
IsZero(deflator) == \E f \in Factors : f.n = 0 /\ deflator[f] > 0

\* acc / cumulative_deflator, kept as the two operands
Quotient(acc, deflator) == [num |-> acc, den |-> deflator]

\* drafts for the projection: the template, and one with both lists empty
\* (the sums are then the Python number 0 and the balance a Python float)
ProjectionDrafts ==
  {get_default_state,
   [basic_salary    |-> Num(3000),
    allowances      |-> Num(0),
    variable_income |-> Num(0),
    current_savings |-> Num(500),
    epf_rate        |-> 0,
    expenses        |-> <<>>,
    deductions      |-> <<>>],
   [basic_salary    |-> Num(1000),
    allowances      |-> Num(0),
    variable_income |-> Num(0),
    current_savings |-> Num(0),
    epf_rate        |-> 11,
    expenses        |-> <<Item("Housing (Rent/Loan)", Num(1500))>>,
    deductions      |-> <<>>]}

\* balance is a numpy float when an Amount column was summed into it
BalanceIsNumpy(s) == s.expenses # <<>> \/ s.deductions_list # <<>>

InitProjection ==
  /\ \E d \in ProjectionDrafts :
       MainAtRest(WithDraft(InitSession(MinYear), d), BlankSheet)
  /\ \E months_to_project \in Horizons :
       \E yearly_rates_list \in RateLists(months_to_project \div 12) :
         proj = [pc                  |-> "loop",
                 months_to_project   |-> months_to_project,
                 yearly_rates_list   |-> yearly_rates_list,
                 m                   |-> 0,
                 acc                 |-> ss.current_savings,
                 cumulative_deflator |-> NoDeflation,
                 future              |-> <<>>]
  /\ race = NoRace
  /\ metrics = NoMetrics

\* one pass of  for m in range(months_to_project).  Dividing a Python float
\* by 0.0 raises ZeroDivisionError; a numpy float divides to inf or nan
ProjectMonth ==
  /\ proj.pc = "loop"
  /\ LET current_year_idx == proj.m \div 12
         rate == rate_of_year(proj.yearly_rates_list, current_year_idx)
         acc == RAdd(proj.acc, balance(ss))
         cumulative_deflator ==
           TimesFactor(proj.cumulative_deflator, MonthFactor(rate))
         entry == [Month   |-> proj.m + 1,
                   Nominal |-> acc,
                   Real    |-> Quotient(acc, cumulative_deflator)]
     IN  IF IsZero(cumulative_deflator) /\ ~BalanceIsNumpy(ss)
         THEN proj' = [proj EXCEPT !.pc = "raised",
                                   !.acc = acc,
                                   !.cumulative_deflator = cumulative_deflator]
         ELSE proj' = [proj EXCEPT
                         !.pc = IF proj.m + 1 < proj.months_to_project
                                THEN "loop" ELSE "done",
                         !.m = proj.m + 1,
                         !.acc = acc,
                         !.cumulative_deflator = cumulative_deflator,
                         !.future = Append(@, entry)]
  /\ UNCHANGED <<main, race, metrics, cloud>>

NextProjection == ProjectMonth

SpecProjection == InitProjection /\ [][NextProjection]_vars

(* ----------------------- a save and the way back ----------------------- *)
\* the sessions a save may start from: a typed draft in another currency
RevisitSessions ==
  {[WithDraft(InitSession(MinYear), d) EXCEPT !.active_currency = "USD"] :
     d \in UserDrafts}

InitRevisit ==
  /\ \E s \in RevisitSessions, store \in InitialStores : MainAtRest(s, store)
  /\ race = NoRace
  /\ metrics = NoMetrics
  /\ proj = NoProjection

NextRevisit ==
  \/ \E d \in UserDrafts : EditDraft(d)
  \/ \E m \in MonthChoices, y \in YearChoices, ok \in BOOLEAN :
       PeriodChange(m, y, ok)
  \/ \E f \in SaveFailures : SaveRecord(f)
  \/ \E td \in SUBSET (MonthChoices \X YearChoices), f \in DeleteFailures :
       DeleteSelected(td, f)

SpecRevisit == InitRevisit /\ [][NextRevisit]_vars

(* ------------------- the sidebar: Upload, Pull, Auto-Fill -------------- *)
\* where the Upload button may fail: no store client (save_cloud_state does
\* nothing and returns), opening the sheet, or an append after ws.clear()
UploadFailures == {"none", "noclient", "open", "append"}

\* the Upload button: the State sheet after save_cloud_state, and whether a
\* store call raised before "Uploaded!"
upload_button(cloud_row, s, fail) ==
  CASE fail = "noclient" -> [cloud |-> cloud_row, raised |-> FALSE]
    [] fail = "open"     -> [cloud |-> cloud_row, raised |-> TRUE]
    [] fail = "append"   -> [cloud |-> NoPayload, raised |-> TRUE]
    [] OTHER             -> [cloud |-> save_cloud_state(s), raised |-> FALSE]

\* the profiles the model may answer with: every key, every key with an EPF
\* rate the slider does not take, and a reply that lacks most keys
AiProfiles ==
  {[basic_salary    |-> Num(4500),
    allowances      |-> Num(300),
    variable_income |-> Num(0),
    current_savings |-> Num(2000),
    epf_rate        |-> rate,
    expenses        |-> <<Item("Rent", Num(1200))>>,
    deductions      |-> <<Item("Tax", Num(100))>>] : rate \in {12, 25}}
  \cup {[basic_salary |-> Num(5000)]}

\* how a press of Generate Profile may go: no API key, the call or the
\* parse of the reply raises, int() raises on the reply's epf_rate, or the
\* reply is taken
AiReplies ==
  {[kind |-> "nokey"], [kind |-> "raise"]}
  \cup {[kind |-> k, data |-> p] : k \in {"bad_epf", "json"}, p \in AiProfiles}

\* the Generate Profile handler
auto_fill(s, ai) ==
  LET scalars ==
        [s EXCEPT
           !.basic_salary = Get(ai.data, "basic_salary", Num(0)),
           !.allowances = Get(ai.data, "allowances", Num(0)),
           !.variable_income = Get(ai.data, "variable_income", Num(0)),
           !.current_savings = Get(ai.data, "current_savings", Num(0))]
      filled ==
        [scalars EXCEPT
           !.epf_rate = Get(ai.data, "epf_rate", 11),
           !.expenses = Get(ai.data, "expenses", <<>>),
           !.deductions_list = Get(ai.data, "deductions", <<>>)]
      shadowed ==
        [filled EXCEPT
           !.loaded_salary = filled.basic_salary,
           !.loaded_allowances = filled.allowances,
           !.loaded_var = filled.variable_income,
           !.loaded_savings = filled.current_savings,
           !.loaded_epf = filled.epf_rate]
  IN  CASE ai.kind = "nokey" ->
             [ss |-> s, outcome |-> "error", msg |-> "API Key required."]
        [] ai.kind = "raise" ->
             [ss |-> s, outcome |-> "error", msg |-> "Error"]
        [] ai.kind = "bad_epf" ->
             [ss |-> scalars, outcome |-> "error", msg |-> "Error"]
        [] OTHER ->
             [ss |-> shadowed, outcome |-> "filled", msg |-> ""]

\* the user presses Upload; the run goes on below the sidebar
Upload(fail) ==
  /\ pc = "idle" /\ steps < MaxSteps
  /\ LET r == upload_button(cloud, ss, fail)
     IN  /\ cloud' = r.cloud
         /\ last' = [Event("upload", IF r.raised THEN "exception" ELSE "uploaded",
                           IF r.raised THEN "" ELSE "Uploaded!",
                           <<>>, TRUE, fail, NoLookup, NoLookup)
                       EXCEPT !.uploaded = IF r.cloud = cloud THEN last.uploaded
                                           ELSE IF r.cloud = NoPayload THEN <<>>
                                           ELSE <<ss>>]
  /\ pc' = NextPc(ss)
  /\ steps' = steps + 1
  /\ UNCHANGED <<ss, history, race, metrics, proj>>

\* the user presses Pull: load_cloud_state reads the State sheet, or gives
\* None when the read fails
PullCloud(read_ok, now_year) ==
  /\ pc = "idle" /\ steps < MaxSteps
  /\ LET r == pull_state(ss, IF read_ok THEN cloud ELSE NoPayload, now_year)
     IN  /\ ss' = r.ss
         /\ pc' = NextPc(r.ss)
         /\ last' = Event("pull", r.outcome, r.msg, <<>>, read_ok, "",
                          NoLookup, NoLookup)
  /\ steps' = steps + 1
  /\ UNCHANGED <<history, aux>>

\* the user presses Generate Profile
AutoFill(ai) ==
  /\ pc = "idle" /\ steps < MaxSteps
  /\ LET r == auto_fill(ss, ai)
     IN  /\ ss' = r.ss
         /\ pc' = NextPc(r.ss)
         /\ last' = Event("autofill", r.outcome, r.msg, <<>>, TRUE, ai.kind,
                          NoLookup, NoLookup)
  /\ steps' = steps + 1
  /\ UNCHANGED <<history, aux>>

\* every handler of the dashboard
NextAll ==
  \/ Next
  \/ \E f \in UploadFailures : Upload(f)
  \/ \E ok \in BOOLEAN, y \in YearChoices : PullCloud(ok, y)
  \/ \E ai \in AiReplies : AutoFill(ai)

SpecAll == Init /\ [][NextAll]_vars

\* an upload, what the user does next, and a pull
InitCloud ==
  /\ \E s \in RevisitSessions, store \in InitialStores : MainAtRest(s, store)
  /\ race = NoRace
  /\ metrics = NoMetrics
  /\ proj = NoProjection

NextCloud ==
  \/ \E d \in UserDrafts : EditDraft(d)
  \/ \E m \in MonthChoices, y \in YearChoices, ok \in BOOLEAN :
       PeriodChange(m, y, ok)
  \/ \E ok \in BOOLEAN : Render(ok)
  \/ \E f \in UploadFailures : Upload(f)
  \/ \E ok \in BOOLEAN, y \in YearChoices : PullCloud(ok, y)
  \/ \E ai \in AiReplies : AutoFill(ai)

SpecCloud == InitCloud /\ [][NextCloud]_vars

(* ------------------------- vocabulary of the claims -------------------- *)
\* the monetary fields of a session
Monetary(s) ==
  [basic_salary    |-> s.basic_salary,
   allowances      |-> s.allowances,
   variable_income |-> s.variable_income,
   current_savings |-> s.current_savings,
   expenses        |-> s.expenses,
   deductions      |-> s.deductions_list]

\* every amount of the second list is the amount of the first times f
ItemsTimes(before, after, f) ==
  /\ Len(after) = Len(before)
  /\ \A i \in DOMAIN before :
       /\ after[i].Category = before[i].Category
       /\ after[i].Amount.n * before[i].Amount.d * f.d
            = before[i].Amount.n * f.n * after[i].Amount.d

\* x = y * f, by cross-multiplication
Times(x, y, f) == x.n * y.d * f.d = y.n * f.n * x.d

\* a row with every column of this version and two cells json.loads accepts
WellFormed(row) ==
  /\ DOMAIN row = Range(expected_headers)
  /\ json_valid(row.Expenses_JSON)
  /\ json_valid(row.Deductions_JSON)

\* the draft of the session is the one the row holds
DraftFromRow(s, row) ==
  /\ s.basic_salary = row.Basic_Salary
  /\ s.allowances = row.Allowances
  /\ s.variable_income = row.Variable_Income
  /\ s.current_savings = row.Current_Savings
  /\ s.epf_rate = row.EPF_Rate
  /\ s.expenses = json_loads(row.Expenses_JSON)
  /\ s.deductions_list = json_loads(row.Deductions_JSON)
  /\ s.active_currency = row.Currency

\* the rows of a store with the key of the session's selected period
RowsOfPeriod(store, s) ==
  LET Mine(r) == r.Month = s.month_select /\ r.Year = s.year_input
  IN  SelectSeq(store.rows, Mine)

\* the period watcher ran its lookup (the selection differed from the
\* last-viewed period)
WatcherFired == last.op = "period_change" /\ last.outcome # "nochange"

(* -------------------------------- claims ------------------------------- *)
\* C1: a currency switch in which a required rate lookup fails or returns no
\* data leaves active_currency and every monetary field as they were before
\* the call, and surfaces an error.
C1_SwitchAllOrNothing ==
  (last.op = "switch" /\ last.outcome = "error") =>
    /\ ss.active_currency = last.pre.active_currency
    /\ Monetary(ss) = Monetary(last.pre)
    /\ last.msg # ""

\* C2: the History store never holds two rows with the same (Month, Year),
\* whatever saves and deletes ran.
C2_UniqueKeys ==
  \A i, j \in DOMAIN history.rows :
    Label(history.rows[i]) = Label(history.rows[j]) => i = j

C2_Witness ==
  /\ last.op = "save" /\ last.outcome = "saved" /\ last.target = "none"
  /\ RowsOfPeriod(last.pre_store, last.pre) # <<>>
  /\ Len(history.rows) >= 2

\* C3: after a save onto a key that already has a record with other data,
\* the store holds exactly one record for the key, and it carries the draft,
\* the serialized collections, the currency and the derived totals of this
\* save.
C3_SaveOverwrites ==
  (last.op = "save" /\ last.outcome = "saved" /\ last.target = "none") =>
    LET mine == RowsOfPeriod(history, last.pre)
        d == last.pre
    IN  /\ Len(mine) = 1
        /\ WellFormed(mine[1])
        /\ DraftFromRow(d, mine[1])
        /\ mine[1].Net_Income = net(d)
        /\ mine[1].Total_Expenses = total_exp(d)
        /\ mine[1].Balance = balance(d)
        /\ mine[1].EPF_Savings = epf_amount(d)

C3_Witness ==
  /\ last.op = "save" /\ last.outcome = "saved" /\ last.target = "none"
  /\ LET old == RowsOfPeriod(last.pre_store, last.pre)
     IN  /\ old # <<>>
         /\ old[1].Basic_Salary # last.pre.basic_salary
         /\ old[1].Expenses_JSON # json_dumps(last.pre.expenses)
  /\ last.pre.loaded_salary # last.pre.basic_salary

C6_LoadJumps ==
  (last.op = "load" /\ last.rec # <<>> /\ WellFormed(last.rec[1])) =>
    /\ last.outcome = "loaded"
    /\ DraftFromRow(ss, last.rec[1])
    /\ ss.month_select = last.rec[1].Month
    /\ ss.year_input = last.rec[1].Year
    /\ ss.last_viewed_month = last.rec[1].Month
    /\ ss.last_viewed_year = last.rec[1].Year
    /\ pc = "idle"
    /\ \A ok \in BOOLEAN :
         period_watcher(ss, get_sheet_data(history, ok)).outcome = "nochange"

C6_Witness ==
  /\ last.op = "load" /\ last.rec # <<>> /\ WellFormed(last.rec[1])
  /\ last.pre.month_select # last.rec[1].Month
  /\ Draft(last.pre) # Draft(ss)

\* C7: a successful currency switch multiplies every monetary field by the
\* product of the rates it looked up and sets active_currency to the target.
C7_SwitchRescalesAll ==
  (last.op = "switch" /\ last.outcome = "switched") =>
    LET f == EffectiveFactor(last.o1, last.o2)
        p == last.pre
    IN  /\ Times(ss.basic_salary, p.basic_salary, f)
        /\ Times(ss.allowances, p.allowances, f)
        /\ Times(ss.variable_income, p.variable_income, f)
        /\ Times(ss.current_savings, p.current_savings, f)
        /\ ItemsTimes(p.expenses, ss.expenses, f)
        /\ ItemsTimes(p.deductions_list, ss.deductions_list, f)
        /\ ss.active_currency = last.target

C7_Witness ==
  /\ last.op = "switch" /\ last.outcome = "switched"
  /\ last.o1.kind = "data" /\ last.o2.kind = "data"
  /\ last.o1.rate # last.o2.rate
  /\ last.pre.deductions_list # <<>>
  /\ last.pre.expenses # <<>>

C10_SaveKeepsSession ==
  last.op = "save" =>
    /\ ss.active_currency = last.pre.active_currency
    /\ ss.month_select = last.pre.month_select
    /\ ss.year_input = last.pre.year_input
    /\ Draft(ss) = Draft(last.pre)

C10_Witness ==
  /\ last.op = "save" /\ last.outcome = "saved"
  /\ history # last.pre_store
  /\ Draft(last.pre) # get_default_state
  /\ last.pre.active_currency # "MYR"

\* C11: Delete Selected leaves the whole session (draft, active currency,
\* selected and last-viewed period) as it was, also when the record of the
\* period on screen is among the deleted ones; once the rows are gone, a
\* period change onto a deleted period ends at the defaults.
C11_DeleteKeepsSession ==
  last.op = "delete" =>
    /\ ss = last.pre
    /\ (last.outcome = "deleted" /\ last.target = "none") =>
         \A l \in last.labels, m \in Range(months), ok \in BOOLEAN :
           m # l[1] =>
           LET arriving == [ss EXCEPT !.month_select = l[1],
                                      !.year_input = l[2],
                                      !.last_viewed_month = m]
               w == period_watcher(arriving, get_sheet_data(history, ok))
           IN  /\ w.outcome = "default"
               /\ Draft(w.ss) = get_default_state
               /\ w.ss.active_currency = "MYR"

C11_Witness ==
  /\ last.op = "delete" /\ last.outcome = "deleted" /\ last.target = "none"
  /\ <<ss.month_select, ss.year_input>> \in last.labels
  /\ RowsOfPeriod(last.pre_store, ss) # <<>>
  /\ RowsOfPeriod(history, ss) = <<>>
  /\ Draft(ss) # get_default_state
  /\ ss.active_currency # "MYR"

\* C12: every period-change transition, whether its lookup found a record
\* or not, ends with last_viewed_month and last_viewed_year equal to the
\* selected month and year, so that a later script run with the same
\* selection does not run the lookup again and leaves the draft alone.
C12_WatcherIdempotent ==
  WatcherFired =>
    /\ ss.last_viewed_month = ss.month_select
    /\ ss.last_viewed_year = ss.year_input
    /\ pc = "idle"
    /\ \A ok \in BOOLEAN :
         LET w == period_watcher(ss, get_sheet_data(history, ok))
         IN  w.outcome = "nochange" /\ w.ss = ss

\* the data lines of a sheet for the period / for every other period
LinesOfPeriod(sheet, period) ==
  SelectSeq(sheet, LAMBDA l : l.kind = "row" /\ Label(l.row) = period)

LinesOfOthers(sheet, period) ==
  SelectSeq(sheet, LAMBDA l : l.kind = "row" /\ Label(l.row) # period)

\* C13: whatever the interleaving of the store calls of two saves for the
\* same (Month, Year), once both saves have finished the sheet holds exactly
\* one row for that key, it is the row of one of the two saves, and the rows
\* of the other keys are the ones the sheet had before.
C13_RaceLeavesOneRow ==
  (\A p \in Sessions : race.proc[p].pc = "done") =>
    LET mine == LinesOfPeriod(race.sheet, RacePeriod)
    IN  /\ Len(mine) = 1
        /\ \E p \in Sessions : mine[1].row = race.proc[p].row
        /\ LinesOfOthers(race.sheet, RacePeriod)
             = LinesOfOthers(race.initial, RacePeriod)

\* an amount of two decimals in cents, and a list of them summed in cents
Cents(x) == x.n * (100 \div x.d)

RECURSIVE CentsSum(_)
CentsSum(items) ==
  IF items = <<>> THEN 0 ELSE Cents(items[1].Amount) + CentsSum(Tail(items))

\* x is e ten-thousandths
IsTenThousandths(x, e) == 10000 % x.d = 0 /\ x.n * (10000 \div x.d) = e

\* C14: for every draft, negative, zero and empty inputs included, the EPF
\* amount is (basic_salary + allowances) * epf_rate / 100, the total
\* deductions are the EPF amount plus the deduction amounts, the net income
\* is the three incomes minus the total deductions, the total expenses are
\* the sum of the expense amounts (0 for none) and the balance is the net
\* income minus the total expenses, without clamping.  For salary 6000,
\* allowances 500, EPF 11 %, deductions 19.75, 7.90 and 300.00 and expenses
\* of 4300 these are 715.00, 1042.65, 5457.35 and 1157.35.
C14_DerivedMetrics ==
  metrics.done =>
    LET income == Cents(ss.basic_salary) + Cents(ss.allowances)
        epf == income * ss.epf_rate
        deducted == epf + 100 * CentsSum(ss.deductions_list)
        earned == 100 * (income + Cents(ss.variable_income)) - deducted
        spent == 100 * CentsSum(ss.expenses)
    IN  /\ IsTenThousandths(metrics.epf_amount, epf)
        /\ IsTenThousandths(metrics.total_deductions, deducted)
        /\ IsTenThousandths(metrics.net, earned)
        /\ IsTenThousandths(metrics.total_exp, spent)
        /\ IsTenThousandths(metrics.balance, earned - spent)
        /\ Draft(ss) = get_default_state =>
             /\ metrics.epf_amount = [n |-> 715, d |-> 1]
             /\ metrics.total_deductions = [n |-> 20853, d |-> 20]
             /\ metrics.net = [n |-> 109147, d |-> 20]
             /\ metrics.total_exp = [n |-> 4300, d |-> 1]
             /\ metrics.balance = [n |-> 23147, d |-> 20]

C14_Witness ==
  /\ metrics.done
  /\ ss.basic_salary.n < 0 /\ ss.variable_income.n < 0
  /\ ss.epf_rate > 0
  /\ ss.deductions_list # <<>> /\ ss.expenses = <<>>
  /\ metrics.epf_amount.n < 0
  /\ metrics.balance.n < 0

\* C15: on both load paths, the session initialisation and the Pull button,
\* a field the payload lacks takes its documented default: basic_salary
\* 6000, allowances 500, variable_income 0, current_savings 10000, epf_rate
\* 11, the default expenses and deductions, currency MYR; and no error is
\* raised.
C15_AbsentFieldsTakeDefaults ==
  (last.op \in {"init", "pull"} /\ last.absent # {}) =>
    LET Absent(f) == f \in last.absent
    IN  /\ last.outcome # "exception"
        /\ Absent("basic_salary") => ss.basic_salary = Num(6000)
        /\ Absent("allowances") => ss.allowances = Num(500)
        /\ Absent("variable_income") => ss.variable_income = Num(0)
        /\ Absent("current_savings") => ss.current_savings = Num(10000)
        /\ Absent("epf_rate") => ss.epf_rate = 11
        /\ Absent("expenses") => ss.expenses = get_default_state.expenses
        /\ Absent("deductions") => ss.deductions_list = get_default_state.deductions
        /\ Absent("currency") => ss.active_currency = "MYR"

\* the labels of the rows of a store
LabelsOf(store) == {Label(r) : r \in Range(store.rows)}

\* C16: a delete of period keys none of which has a record changes no record
\* of the store and reports "no matching record found": neither a deletion
\* nor an error.
C16_DeleteAbsentIsNoOp ==
  (/\ last.op = "delete" /\ last.target = "none"
   /\ last.labels \cap LabelsOf(last.pre_store) = {}) =>
    /\ history = last.pre_store
    /\ last.outcome # "exception"
    /\ last.msg = "no matching record found"

\* where a row stands in a store
PositionIn(store, row) == CHOOSE i \in DOMAIN store.rows : store.rows[i] = row

\* C20: after delete_rows_from_sheet with a list L the store holds precisely
\* the rows whose label is not in L, each with the values it had, in the
\* order they had, under the header the sheet had, also when no row is left.
C20_DeleteRemovesExactlyListed ==
  (last.op = "delete" /\ last.outcome = "deleted" /\ last.target = "none") =>
    LET before == last.pre_store
        L == last.labels
    IN  /\ history.header = before.header
        /\ \A r \in Range(history.rows) :
             r \in Range(before.rows) /\ Label(r) \notin L
        /\ \A r \in Range(before.rows) :
             Label(r) \notin L => r \in Range(history.rows)
        /\ Len(history.rows)
             = Cardinality({i \in DOMAIN before.rows : Label(before.rows[i]) \notin L})
        /\ \A i, j \in DOMAIN history.rows :
             i < j => PositionIn(before, history.rows[i])
                        < PositionIn(before, history.rows[j])

C20_Witness ==
  /\ last.op = "delete" /\ last.outcome = "deleted" /\ last.target = "none"
  /\ Len(last.pre_store.rows) = 3
  /\ Len(history.rows) = 2
  /\ Label(last.pre_store.rows[2]) \in last.labels
  /\ last.labels \ LabelsOf(last.pre_store) # {}

\* C17: for all currencies A and B and every draft, a successful switch from
\* A to B followed by a successful switch from B to A at the inverse rates
\* gives back every monetary field (exactly, hence within any tolerance) and
\* leaves A as the active currency.
C17_RoundTrip ==
  last.op = "back" =>
    /\ last.outcome = "switched"
    /\ Monetary(ss) = Monetary(last.pre)
    /\ ss.active_currency = last.pre.active_currency

C17_Witness ==
  /\ last.op = "back" /\ last.outcome = "switched"
  /\ last.o1.kind = "data" /\ last.o2.kind = "data"
  /\ RMul(last.o1.rate, last.o2.rate) # Num(1)
  /\ ss.expenses # <<>> /\ ss.deductions_list # <<>>
  /\ ss.active_currency # "MYR"

\* how often a factor went into the deflator of the entry of month i
FactorCount(yearly_rates_list, i, f) ==
  Cardinality({k \in 0..(i - 1) :
     LET y == k \div 12
     IN  IF y < Len(yearly_rates_list)
         THEN MonthFactor(yearly_rates_list[y + 1]) = f
         ELSE f = [n |-> 401, d |-> 400]})

\* C18: for each horizon H of 12, 36, 60 and 120 months the projection
\* completes, no error is raised, and it has exactly H entries, numbered
\* from 1; a year the inflation list does not cover is deflated at 3 % a
\* year; the nominal wealth of an entry is that of the entry before, or the
\* current savings for the first, plus the monthly balance.
C18_ProjectionCompletes ==
  /\ proj.pc \in {"loop", "done"} =>
       /\ proj.m <= proj.months_to_project
       /\ Len(proj.future) = proj.m
       /\ (proj.pc = "done") = (proj.m = proj.months_to_project)
       /\ \A i \in DOMAIN proj.future :
            LET e == proj.future[i]
                before == IF i = 1 THEN ss.current_savings
                          ELSE proj.future[i - 1].Nominal
            IN  /\ e.Month = i
                /\ e.Nominal = RAdd(before, balance(ss))
                /\ e.Real.num = e.Nominal
                /\ \A f \in Factors :
                     e.Real.den[f] = FactorCount(proj.yearly_rates_list, i, f)
  /\ proj.pc # "raised"

\* C19: with a horizon of 12 months and the single inflation entry 0.0 %
\* the real purchasing power of each of the 12 entries is its nominal
\* wealth.
C19_ZeroInflation ==
  (proj.pc \in {"loop", "done"} /\ proj.months_to_project = 12
     /\ proj.yearly_rates_list = <<Num(0)>>) =>
    /\ proj.pc = "done" => Len(proj.future) = 12
    /\ \A i \in DOMAIN proj.future :
         /\ proj.future[i].Real.den = NoDeflation
         /\ proj.future[i].Real.num = proj.future[i].Nominal

C19_Witness ==
  /\ proj.pc = "done" /\ proj.months_to_project = 12
  /\ proj.yearly_rates_list = <<Num(0)>>
  /\ Len(proj.future) = 12
  /\ proj.future[12].Nominal # ss.current_savings
  /\ proj.future[12].Nominal.n < 0

\* C21: in every state the handlers can reach, the draft's epf_rate is an
\* integer in 0..20 and the year of the active period is in 2020..2030
C21_DraftInWidgetRange ==
  /\ ss.epf_rate \in MinEpf..MaxEpf
  /\ ss.year_input \in MinYear..MaxYear

\* C22: a call of save_row_to_history for the key K that returns leaves
\* every record the History sheet held under another (Month, Year) in the
\* sheet, cell for cell, whatever the header row was before the call
C22_SaveKeepsOtherPeriods ==
  (last.op = "save" /\ last.outcome = "saved") =>
    \A r \in Range(last.pre_store.rows) :
      ~SameKey(r, current_data(last.pre)) => r \in Range(history.rows)

\* C24: whenever Save Record ends with "Saved!", the History sheet holds a
\* record of the selected (Month, Year) that equals the row of the draft;
\* without a store client "Saved!" is not reported
C24_SavedMeansStored ==
  (last.op = "save" /\ last.msg = "Saved!") =>
    \E r \in Range(history.rows) : r = current_data(last.pre)

\* C25: when a store call of save_row_to_history for the key K fails, the
\* History sheet still holds a record of K if it held one before the call
C25_FailedSaveKeepsRecord ==
  (last.op = "save" /\ last.outcome = "exception") =>
    ((\E r \in Range(last.pre_store.rows) : SameKey(r, current_data(last.pre)))
       => \E r \in Range(history.rows) : SameKey(r, current_data(last.pre)))

\* C23: the user saves the draft of a period, selects another period and
\* selects the first one again, with no save or delete in between and the
\* History sheet read on the way back: the seven draft fields and the active
\* currency are the ones that were saved
C23_SaveThenRevisit ==
  (/\ last.op = "period_change" /\ last.read_ok
   /\ last.saved # <<>>
   /\ ss.month_select = last.saved[1].month_select
   /\ ss.year_input = last.saved[1].year_input)
  => /\ Draft(ss) = Draft(last.saved[1])
     /\ ss.active_currency = last.saved[1].active_currency

\* C26: after an upload that wrote the State sheet, a Pull that reads the
\* sheet, from any session state and with no upload in between, sets the
\* seven draft fields, the selected month and year and the active currency
\* to the uploaded values, and the last-viewed period to the pulled period:
\* the watcher has nothing to do on the run that follows
C26_UploadThenPull ==
  (last.op = "pull" /\ last.read_ok /\ last.uploaded # <<>>) =>
    /\ Draft(ss) = Draft(last.uploaded[1])
    /\ ss.month_select = last.uploaded[1].month_select
    /\ ss.year_input = last.uploaded[1].year_input
    /\ ss.active_currency = last.uploaded[1].active_currency
    /\ ss.last_viewed_month = ss.month_select
    /\ ss.last_viewed_year = ss.year_input
    /\ period_watcher(ss, history.rows).outcome = "nochange"
    /\ pc = "idle"

\* a pull that replaced a draft, a period and a currency that all differed
\* from the uploaded ones by an uploaded draft that is not the default one
C26_Witness ==
  /\ last.op = "pull" /\ last.read_ok /\ last.uploaded # <<>>
  /\ last.outcome = "pulled"
  /\ Draft(last.uploaded[1]) # get_default_state
  /\ Draft(last.pre) # Draft(ss)
  /\ last.pre.month_select # ss.month_select
  /\ last.pre.active_currency # ss.active_currency
  /\ Draft(ss) = Draft(last.uploaded[1])

====
